---------------------------- MODULE Spec2Model ----------------------------
(***************************************************************************)
(* Backend widget lifecycle manager, secret store, admin API, event stream *)
(* and broadcast snapshot cache of the CardPane dashboard server           *)
(* (server/index.js, server/crypto.js, which holds the SecretsManager,     *)
(* server/storage.js).                                                     *)
(*                                                                         *)
(* JavaScript values are modelled as follows.                              *)
(*  - A layout (array of items with unique `i`) is a function from the     *)
(*    placed instance ids to items; an item is a record with widgetId and, *)
(*    when the item carries one, config.                                   *)
(*  - A JSON object (a config) is the sequence of its <<key, value>>       *)
(*    members in insertion order, the order JSON.stringify writes them in. *)
(*  - A Map is a function whose DOMAIN is the set of keys present.         *)
(*  - Each request handler runs to completion on the single event loop, so *)
(*    each handler is one action, reconciliation included.                 *)
(*  - An initializer returns a function, an object whose members are       *)
(*    functions, or nothing, or it throws; a cleanup may throw.            *)
(*  - The registry is the one discoverWidgets built; requests are served   *)
(*    once its initial sync ran.                                           *)
(*  - A JSON value that is no plain object (null, a string, an array) is a *)
(*    record with the field js; an item without `i` sits under the key     *)
(*    "undefined", as it does in the Maps of the server.                   *)
(*  - A viewer is one connection to /api/events; what was written to its   *)
(*    response is kept in connections, the clock is the variable now.      *)
(*  - A backend publishes when the response of a request it sent arrives; *)
(*    the requests awaited are kept in inFlight. A cleanup clears the      *)
(*    timer of the backend and cancels no request, so a request outlives   *)
(*    the handle of the backend that sent it.                              *)
(***************************************************************************)
EXTENDS Integers, Sequences, FiniteSets, TLC

(***************************************************************************)
(* Small input sets                                                        *)
(***************************************************************************)
Instances == {"i1", "i2"}

\* widget ids of src/widgets-external: three with a backend.js, one without
WidgetTypes == {"stock-quote-widget", "weather-widget", "heartbeat-widget", "quote-widget"}

\* result of discoverWidgets: "<dirname>-widget" for every directory with a backend.js
backendRegistry == {"stock-quote-widget", "weather-widget", "heartbeat-widget"}

\* configs an item may carry; the last two have the same members in another order
CfgEmpty == <<>>
CfgAB == << <<"latitude", "1">>, <<"longitude", "2">> >>
CfgBA == << <<"longitude", "2">>, <<"latitude", "1">> >>
Configs == {CfgEmpty, CfgAB, CfgBA}

\* layout items of the given types, without a config or with one of cfgs
\* (the grid geometry x, y, w, h is never read by the server and is left out)
ItemsOf(types, cfgs) == [widgetId : types] \cup [widgetId : types, config : cfgs]

LayoutsOf(items) == UNION {[S -> items] : S \in SUBSET Instances}

\* the layouts one edit of the dashboard turns lay into: an item added,
\* replaced or removed, or nothing but geometry changed (lay itself)
EditsOf(lay, items) ==
    {lay}
    \cup {[j \in DOMAIN lay \cup {i} |-> IF j = i THEN it ELSE lay[j]] :
              i \in Instances, it \in items}
    \cup {[j \in DOMAIN lay \ {i} |-> lay[j]] : i \in DOMAIN lay}

\* secret buckets
EmptyBucket == [k \in {} |-> "none"]
Bucket1 == [apiKey |-> "key-1"]
Bucket2 == [apiKey |-> "key-2"]

StoresOf(types, buckets) == UNION {[S -> buckets] : S \in SUBSET types}

EmptyMap == [k \in {} |-> "none"]

VARIABLES
    phase,              \* "discovering" until the initial sync ran, then "serving"
    layout,             \* config.layout of dashboard.yml
    secrets,            \* SecretsManager.secrets
    activeBackends,     \* instanceId -> handle
    widgetDataSnapshot, \* instanceId -> snapshot entry
    calls,              \* per instance, the cleanup/initializer calls of the last step
    live,               \* per instance, successful initializer calls minus cleanup calls
    inFlight,           \* the closures that await the response of a request they sent
    lastRequest,        \* the step taken last and the HTTP status it answered with
    processEnv,         \* process.env: NODE_ENV and SECRETS_MASTER_KEY
    secretsFile,        \* the secrets artifact on disk, of the mode the manager runs in
    clients,            \* the registered SSE clients, in registration order
    connections,        \* per viewer: is its socket open, and what was written to it
    now                 \* Date.now()

\* the variables of the event stream, and those read at start-up
sseVars == <<clients, connections, now>>
bootVars == <<processEnv, secretsFile>>

vars == <<phase, layout, secrets, activeBackends, widgetDataSnapshot, calls, live, inFlight,
          lastRequest, processEnv, secretsFile, clients, connections, now>>

Request(op, status) == [op |-> op, status |-> status]

NoCalls == [i \in Instances |-> <<>>]

(***************************************************************************)
(* Pure helpers                                                            *)
(***************************************************************************)
\* `x.config || {}`
ConfigOrEmpty(rec) == IF "config" \in DOMAIN rec THEN rec.config ELSE CfgEmpty

RECURSIVE StringifyMembers(_)
StringifyMembers(members) ==
    IF members = <<>> THEN <<>>
    ELSE LET m == Head(members)
             rest == StringifyMembers(Tail(members))
         IN  <<m[1], ":", m[2]>> \o (IF rest = <<>> THEN <<>> ELSE <<",">> \o rest)

\* JSON.stringify of a flat object, as the sequence of its tokens
JSONStringify(obj) == <<"{">> \o StringifyMembers(obj) \o <<"}">>

\* deep equality of two JSON objects: the same members, in any order
DeepEqual(a, b) == {a[k] : k \in DOMAIN a} = {b[k] : k \in DOMAIN b}

\* mutants of ConfigChanged: the comparison never, or always, reports a change
ConfigChangedNever(existingBackend, item) == FALSE
ConfigChangedAlways(existingBackend, item) == TRUE

\* index.js:376
ConfigChanged(existingBackend, item) ==
    JSONStringify(ConfigOrEmpty(existingBackend)) # JSONStringify(ConfigOrEmpty(item))

\* mutant of GetWidgetSecrets: the lookup ignores the widget type
GetWidgetSecretsAnyType(store, widgetId) ==
    IF DOMAIN store = {} THEN EmptyBucket ELSE store[CHOOSE t \in DOMAIN store : TRUE]

\* SecretsManager.getWidgetSecrets: this.secrets[widgetId] || {}
GetWidgetSecrets(store, widgetId) ==
    IF widgetId \in DOMAIN store THEN store[widgetId] ELSE EmptyBucket

\* mutant of ActiveInstances: the registry is not consulted
ActiveInstancesUnfiltered(lay) == DOMAIN lay

\* index.js:310-316
ActiveInstances(lay) == {i \in DOMAIN lay : lay[i].widgetId \in backendRegistry}

(***************************************************************************)
(* process.env, the secrets artifact (crypto.js:148-230) and the viewers   *)
(***************************************************************************)
\* NODE_ENV: not set, or set to one of these
NodeEnvs == {"unset", "development", "production", "test"}

\* SECRETS_MASTER_KEY: not set, 64 hex characters, or anything else
MasterKeys == {"unset", "valid", "malformed"}

ProductionEnv == [NODE_ENV |-> "production", SECRETS_MASTER_KEY |-> "valid"]

\* index.js:17
IsDevelopment(env) == env.NODE_ENV # "production"

\* isValidMasterKey (crypto.js:123-130)
IsValidMasterKey(masterKey) == masterKey = "valid"

\* the JSON value null
JsNull == [js |-> "null"]

\* the artifact: missing, unreadable in one of three ways, or the
\* serialization of a JSON value (encrypted unless isDevelopment)
FileMissing == [state |-> "missing"]
FileCorrupt(how) == [state |-> how]
FileHolding(value, isDevelopment) ==
    [state |-> "intact", value |-> value,
     format |-> IF isDevelopment THEN "plain" ELSE "encrypted"]

\* SecretsManager.load (crypto.js:169-197): the parsed content, {} when
\* the file is missing or reading it throws
Load(file) == IF file.state = "intact" THEN file.value ELSE EmptyMap

\* the browser connections to /api/events
Viewers == {"v1", "v2"}

NoClients == <<>>
NoConnections == [v \in Viewers |-> [open |-> FALSE, id |-> 0, received |-> <<>>]]

\* the viewers whose response object is in the clients array
Registered(cs) == {cs[k].res : k \in DOMAIN cs}

(***************************************************************************)
(* syncWidgetBackends (index.js:306-418)                                   *)
(***************************************************************************)
\* the context object handed to the initializer (index.js:326-341)
BackendContext(instanceId, item, store) ==
    [secrets    |-> GetWidgetSecrets(store, item.widgetId),
     config     |-> ConfigOrEmpty(item),
     instanceId |-> instanceId,
     widgetId   |-> item.widgetId]

\* mutant of MakeHandle: the config is not kept in the handle
MakeHandleWithoutConfig(result, item) ==
    [cleanup |-> "fn", exportData |-> FALSE, refresh |-> FALSE, widgetId |-> item.widgetId]

\* the handle stored for an initializer result that did not throw
\* (index.js:349-364); widgetId is the type the running closure was started
\* for (not a field of the JavaScript handle)
MakeHandle(result, item) ==
    LET base == CASE result = "function" ->
                       [cleanup |-> "fn",   exportData |-> FALSE, refresh |-> FALSE,
                        widgetId |-> item.widgetId]
                  [] result = "object" ->
                       [cleanup |-> "fn",   exportData |-> TRUE,  refresh |-> TRUE,
                        widgetId |-> item.widgetId]
                  [] OTHER ->
                       [cleanup |-> "noop", exportData |-> FALSE, refresh |-> FALSE,
                        widgetId |-> item.widgetId]
    IN  IF "config" \in DOMAIN item THEN base @@ [config |-> item.config] ELSE base

\* what an initializer call left running: it holds the broadcast function
\* and the instanceId of its context
Closure(instanceId, widgetId) == [instanceId |-> instanceId, widgetId |-> widgetId]

\* instances whose existing handle is stopped because the config changed
Restarted(lay, ab) ==
    {i \in ActiveInstances(lay) \cap DOMAIN ab : ConfigChanged(ab[i], lay[i])}

\* mutant of Started: an instance without a handle is never started
StartedOnlyRestarted(lay, ab) == Restarted(lay, ab)

\* instances for which startBackend is called in this pass (index.js:371-398)
Started(lay, ab) ==
    {i \in ActiveInstances(lay) : i \notin DOMAIN ab} \cup Restarted(lay, ab)

\* handles stopped because the instance is no longer desired (index.js:401-417)
Removed(lay, ab) == DOMAIN ab \ ActiveInstances(lay)

\* mutant of Stopped: a restart starts the new backend without stopping the old
StoppedOnlyRemoved(lay, ab) == DOMAIN ab \ {i \in DOMAIN lay : lay[i].widgetId \in backendRegistry}

\* every handle whose cleanup the pass calls (index.js:382-389, 404-412)
Stopped(lay, ab) == Restarted(lay, ab) \cup Removed(lay, ab)

\* instances whose snapshot the pass deletes (index.js:414)
SnapshotsCleared(lay, ab) == Removed(lay, ab)

\* mutant of InstanceCalls: a throw in the calls of another instance ends the pass
InstanceCallsAbortOnThrow(i, stopped, started, lay, store, results, throwers) ==
    IF \E j \in (stopped \cup started) \ {i} :
            j \in throwers \/ (j \in started /\ results[j] = "throw")
    THEN <<>>
    ELSE (IF i \in stopped
            THEN << [op |-> "cleanup", threw |-> (i \in throwers)] >> ELSE <<>>)
         \o
         (IF i \in started
            THEN << [op |-> "init", ok |-> (results[i] # "throw"),
                     context |-> BackendContext(i, lay[i], store)] >>
            ELSE <<>>)

\* the calls the pass makes for one instance, in order: the cleanup of the
\* old handle (index.js:382-388, 404-411), then startBackend (index.js:392, 396)
InstanceCalls(i, stopped, started, lay, store, results, throwers) ==
    (IF i \in stopped
        THEN << [op |-> "cleanup", threw |-> (i \in throwers)] >> ELSE <<>>)
    \o
    (IF i \in started
        THEN << [op |-> "init", ok |-> (results[i] # "throw"),
                 context |-> BackendContext(i, lay[i], store)] >>
        ELSE <<>>)

NumCleanups(cs) == Cardinality({k \in DOMAIN cs : cs[k].op = "cleanup"})
NumInits(cs) == Cardinality({k \in DOMAIN cs : cs[k].op = "init"})
NumStarts(cs) == Cardinality({k \in DOMAIN cs : cs[k].op = "init" /\ cs[k].ok})

\* one reconciliation pass over layout lay with secret store `store`; the
\* initializers called in the pass behave in one of the ways of resultSet
SyncWidgetBackends(lay, store, resultSet) ==
    \E started \in {Started(lay, activeBackends)} :
    \E stopped \in {Stopped(lay, activeBackends)} :
    \E results \in [started -> resultSet] :
    \E throwers \in SUBSET {i \in stopped : activeBackends[i].cleanup = "fn"} :
    \E created \in {{i \in started : results[i] # "throw"}} :
        /\ activeBackends' =
                [i \in (DOMAIN activeBackends \ stopped) \cup created |->
                    IF i \in created THEN MakeHandle(results[i], lay[i])
                    ELSE activeBackends[i]]
        /\ widgetDataSnapshot' =
                [i \in DOMAIN widgetDataSnapshot \ SnapshotsCleared(lay, activeBackends)
                    |-> widgetDataSnapshot[i]]
        /\ calls' = [i \in Instances |->
                InstanceCalls(i, stopped, started, lay, store, results, throwers)]
        /\ live' = [i \in Instances |->
                live[i] - (IF i \in stopped THEN 1 ELSE 0)
                        + (IF i \in created THEN 1 ELSE 0)]
        /\ UNCHANGED inFlight

(***************************************************************************)
(* Broadcast (index.js:217-253)                                            *)
(***************************************************************************)
\* the pieces a widget id or a topic is made of, for String.prototype.includes
IdParts(id) ==
    CASE id = "stock-quote-widget" -> <<"stock", "-", "quote", "-", "widget">>
      [] id = "stock-quote"        -> <<"stock", "-", "quote">>
      [] id = "quote-widget"       -> <<"quote", "-", "widget">>
      [] id = "weather-widget"     -> <<"weather", "-", "widget">>
      [] id = "heartbeat-widget"   -> <<"heartbeat", "-", "widget">>
      [] OTHER                     -> <<id>>

\* type.includes(widgetId)
Includes(type, widgetId) ==
    LET t == IdParts(type)
        w == IdParts(widgetId)
    IN  \E o \in 0..(Len(t) - Len(w)) : SubSeq(t, o + 1, o + Len(w)) = w

\* mutant of TopicMatches: only the item whose widget id is the topic matches
TopicMatchesExactly(item, type) == item.widgetId = type

\* index.js:234
TopicMatches(item, type) == item.widgetId = type \/ Includes(type, item.widgetId)

\* what a fetching backend publishes: the data it fetched, or data with
\* the error message, next to the instanceId of its context
Payload(instanceId, isError) ==
    IF isError THEN [instanceId |-> instanceId, error |-> "message"]
    ELSE [instanceId |-> instanceId]

\* what the heartbeat backend publishes
Pulse == [status |-> "alive"]

\* data.error is truthy (index.js:242)
HasError(data) == "error" \in DOMAIN data

\* index.js:235-243
SnapshotEntry(item, instanceId, data) ==
    [widgetId |-> item.widgetId, instanceId |-> instanceId,
     data |-> data,
     config |-> ConfigOrEmpty(item),
     status |-> IF HasError(data) THEN "error" ELSE "healthy"]

\* mutant of SnapshotAfter: the entry is stored under the instanceId of the payload
SnapshotAfterByOwner(snapshot, lay, type, data) ==
    IF "instanceId" \in DOMAIN data
        THEN [i \in DOMAIN snapshot \cup {data.instanceId} |->
                IF i = data.instanceId
                    THEN SnapshotEntry([widgetId |-> type], i, data) ELSE snapshot[i]]
        ELSE snapshot

\* widgetDataSnapshot after the loop over the layout (index.js:229-247)
SnapshotAfter(snapshot, lay, type, data) ==
    [i \in DOMAIN snapshot \cup {j \in DOMAIN lay : TopicMatches(lay[j], type)} |->
        IF i \in DOMAIN lay /\ TopicMatches(lay[i], type)
            THEN SnapshotEntry(lay[i], i, data)
            ELSE snapshot[i]]

\* the most events the model lets one connection receive
MaxReceived == 4

\* the payload written to every client (index.js:249-252)
BroadcastEvent(type, isError, timestamp) ==
    [type |-> type, error |-> isError, timestamp |-> timestamp]

\* broadcast(type, data) (index.js:217-253)
BroadcastTo(type, data) ==
    /\ phase = "serving"
    /\ widgetDataSnapshot' = SnapshotAfter(widgetDataSnapshot, layout, type, data)
    /\ \A v \in Registered(clients) : Len(connections[v].received) < MaxReceived
    /\ connections' =
            [v \in Viewers |->
                IF v \in Registered(clients)
                    THEN [connections[v] EXCEPT
                            !.received = Append(@, BroadcastEvent(type, HasError(data), now))]
                    ELSE connections[v]]
    /\ calls' = NoCalls
    /\ UNCHANGED <<phase, layout, secrets, activeBackends, live, clients, now, bootVars>>

\* a running backend fetches and publishes under its widget id; isError: the
\* payload has an error
Broadcast(publisher, isError) ==
    /\ publisher \in DOMAIN activeBackends
    /\ BroadcastTo(activeBackends[publisher].widgetId, Payload(publisher, isError))
    /\ lastRequest' = Request("broadcast", 0)
    /\ UNCHANGED inFlight

\* the topics the backend of a widget type publishes under
Topics(widgetId) ==
    CASE widgetId = "heartbeat-widget"   -> {"heartbeat"}
      [] widgetId = "stock-quote-widget" -> {"stock-quote", "stock-quote-widget"}
      [] OTHER                           -> {widgetId}

\* the timer of a running backend fires, or its initializer has just run:
\* fetchWeather sends its request and awaits the response
StartFetch(instanceId) ==
    /\ phase = "serving"
    /\ instanceId \in DOMAIN activeBackends
    /\ activeBackends[instanceId].widgetId # "heartbeat-widget"
    /\ inFlight' = inFlight \cup {Closure(instanceId, activeBackends[instanceId].widgetId)}
    /\ calls' = NoCalls
    /\ lastRequest' = Request("fetch", 0)
    /\ UNCHANGED <<phase, layout, secrets, activeBackends, widgetDataSnapshot, live,
                   sseVars, bootVars>>

\* the response arrives, or the request fails: the closure publishes what it
\* got, whether or not its handle is still in activeBackends
CompleteFetch(closure, topic, isError) ==
    /\ closure \in inFlight
    /\ topic \in Topics(closure.widgetId)
    /\ BroadcastTo(topic, Payload(closure.instanceId, isError))
    /\ inFlight' = inFlight \ {closure}
    /\ lastRequest' = Request("broadcast", 0) @@
            [topic |-> topic, origin |-> closure.instanceId, widgetId |-> closure.widgetId,
             error |-> isError]

\* the timer of a running heartbeat backend fires: it publishes at once
\* (the pulse its initializer publishes matches no layout item either and
\* is written to the clients only)
Heartbeat(instanceId) ==
    /\ instanceId \in DOMAIN activeBackends
    /\ activeBackends[instanceId].widgetId = "heartbeat-widget"
    /\ BroadcastTo("heartbeat", Pulse)
    /\ lastRequest' = Request("broadcast", 0) @@
            [topic |-> "heartbeat", origin |-> instanceId, widgetId |-> "heartbeat-widget",
             error |-> FALSE]
    /\ UNCHANGED inFlight

\* GET /api/dashboard/snapshot (index.js:426-436)
GetSnapshot ==
    /\ phase = "serving"
    /\ lastRequest' = Request("GET /dashboard/snapshot", 200) @@
            [widget_count |-> Cardinality(DOMAIN widgetDataSnapshot),
             widgets |-> {widgetDataSnapshot[i] : i \in DOMAIN widgetDataSnapshot}]
    /\ calls' = NoCalls
    /\ UNCHANGED <<phase, layout, secrets, activeBackends, widgetDataSnapshot, live, inFlight,
                   sseVars, bootVars>>

(***************************************************************************)
(* The event stream: GET /api/events (index.js:578-634)                    *)
(***************************************************************************)
\* the latest clock value of the model
MaxClock == 2

\* the sequences that enumerate the set S, each element once
OrdersOf(S) ==
    {order \in [1..Cardinality(S) -> S] : {order[k] : k \in DOMAIN order} = S}

\* the first message written to a new client (index.js:591)
ConnectedEvent(clientId) == [type |-> "connected", clientId |-> clientId]

\* the message that carries what exportData() returned (index.js:615-620)
CachedDataEvent(item, instanceId) == [type |-> item.widgetId, instanceId |-> instanceId]

\* the messages the loop of index.js:598-628 writes for the instances of
\* `order`: one for each handle with an exportData that does not throw
RECURSIVE CachedDataEvents(_, _)
CachedDataEvents(order, exported) ==
    IF order = <<>> THEN <<>>
    ELSE LET instanceId == Head(order)
         IN  (IF activeBackends[instanceId].exportData /\ exported[instanceId] = "data"
                 THEN <<CachedDataEvent(layout[instanceId], instanceId)>>
                 ELSE <<>>)
             \o CachedDataEvents(Tail(order), exported)

\* a viewer opens the event stream: it is registered under the clock value,
\* greeted, every handle with a refresh is refreshed and every handle with
\* an exportData has its data written to the new client
Connect(v) ==
    /\ phase = "serving"
    /\ ~connections[v].open
    /\ \E listed \in {{i \in DOMAIN activeBackends : i \in DOMAIN layout}} :
       \E order \in OrdersOf(listed) :
       \E exported \in [{i \in listed : activeBackends[i].exportData} -> {"data", "throws"}] :
            /\ connections' = [connections EXCEPT ![v] =
                    [open |-> TRUE, id |-> now,
                     received |-> <<ConnectedEvent(now)>> \o CachedDataEvents(order, exported)]]
            /\ calls' = [i \in Instances |->
                    IF i \in listed /\ activeBackends[i].refresh
                        THEN <<[op |-> "refresh"]>> ELSE <<>>]
    /\ clients' = Append(clients, [id |-> now, res |-> v])
    /\ lastRequest' = Request("GET /events", 200) @@ [viewer |-> v]
    /\ UNCHANGED <<phase, layout, secrets, activeBackends, widgetDataSnapshot, live, inFlight, now,
                   bootVars>>

\* the clients left by clients.filter(c => c.id !== clientId) (index.js:631)
WithoutId(cs, clientId) ==
    LET Keep(c) == c.id # clientId
    IN  SelectSeq(cs, Keep)

\* the close event of a viewer's request (index.js:630-633)
Disconnect(v) ==
    /\ phase = "serving"
    /\ connections[v].open
    /\ clients' = WithoutId(clients, connections[v].id)
    /\ connections' = [connections EXCEPT ![v].open = FALSE]
    /\ calls' = NoCalls
    /\ lastRequest' = Request("close", 0) @@ [viewer |-> v]
    /\ UNCHANGED <<phase, layout, secrets, activeBackends, widgetDataSnapshot, live, inFlight, now,
                   bootVars>>

\* a millisecond passes
Tick ==
    /\ now < MaxClock
    /\ now' = now + 1
    /\ calls' = NoCalls
    /\ lastRequest' = Request("clock", 0)
    /\ UNCHANGED <<phase, layout, secrets, activeBackends, widgetDataSnapshot, live, inFlight,
                   clients, connections, bootVars>>

\* GET /api/dashboard/ai-summary (index.js:445-447): the instances listed
AiSummaryInstances == {i \in DOMAIN activeBackends : i \in DOMAIN layout}

\* the status of one listed widget (index.js:452-471): from exportData()
\* when the handle has one, else from the cached snapshot
WidgetStatus(instanceId, exported) ==
    IF activeBackends[instanceId].exportData
        THEN (IF exported[instanceId] = "data" THEN "healthy" ELSE "error")
    ELSE IF instanceId \in DOMAIN widgetDataSnapshot
        THEN widgetDataSnapshot[instanceId].status
    ELSE "no_data"

CountOf(widgets, status) == Cardinality({i \in DOMAIN widgets : widgets[i] = status})

\* index.js:483-492: each assignment overrides the ones before it
DashboardState(widgets) ==
    LET errorCount == CountOf(widgets, "error")
        noDataCount == CountOf(widgets, "no_data")
        length == Cardinality(DOMAIN widgets)
        initial == "operational"
        afterNoData == IF noDataCount > 0 THEN "no_data" ELSE initial
        afterError == IF errorCount > 0 THEN "degraded" ELSE afterNoData
        afterHalf == IF 2 * errorCount > length THEN "critical" ELSE afterError
    IN  IF length = 0 THEN "no_data" ELSE afterHalf

\* GET /api/dashboard/ai-summary (index.js:438-507); exported: what each
\* exportData() does, returning data, data with an error, or throwing
AiSummaryRequest ==
    /\ phase = "serving"
    /\ \E exported \in [{i \in AiSummaryInstances : activeBackends[i].exportData}
                            -> {"data", "error", "throws"}] :
        \E widgets \in {[i \in AiSummaryInstances |-> WidgetStatus(i, exported)]} :
            lastRequest' = Request("GET /ai-summary", 200) @@
                [widgets |-> widgets, dashboard_state |-> DashboardState(widgets)]
    /\ calls' = NoCalls
    /\ UNCHANGED <<phase, layout, secrets, activeBackends, widgetDataSnapshot, live, inFlight,
                   sseVars, bootVars>>

(***************************************************************************)
(* Initial state and request handlers                                      *)
(***************************************************************************)
\* the server after construction: the layout and the secrets are what the
\* files hold, nothing runs yet
InitOver(layouts, stores) ==
    /\ phase = "discovering"
    /\ layout \in layouts
    /\ secrets \in stores
    /\ activeBackends = EmptyMap
    /\ widgetDataSnapshot = EmptyMap
    /\ calls = NoCalls
    /\ live = [i \in Instances |-> 0]
    /\ inFlight = {}
    /\ lastRequest = Request("none", 0)
    /\ processEnv = ProductionEnv
    /\ secretsFile = FileHolding(secrets, IsDevelopment(processEnv))
    /\ clients = NoClients
    /\ connections = NoConnections
    /\ now = 1

\* discoverWidgets: the initial sync after discovery (index.js:298-299)
InitialSync(resultSet) ==
    /\ phase = "discovering"
    /\ phase' = "serving"
    /\ SyncWidgetBackends(layout, secrets, resultSet)
    /\ lastRequest' = Request("discoverWidgets", 0)
    /\ UNCHANGED <<layout, secrets, sseVars, bootVars>>

\* POST /api/layout (index.js:78-96), saveConfig succeeding
SaveLayout(newLayout, resultSet) ==
    /\ phase = "serving"
    /\ layout' = newLayout
    /\ SyncWidgetBackends(newLayout, secrets, resultSet)
    /\ lastRequest' = Request("POST /layout", 200)
    /\ UNCHANGED <<phase, secrets, sseVars, bootVars>>

\* mutant of SaveLayoutFails: the failed write is answered like a success
SaveLayoutFailsUnreported ==
    /\ phase = "serving"
    /\ calls' = NoCalls
    /\ lastRequest' = Request("POST /layout", 200) @@ [persist |-> "returned false"]
    /\ UNCHANGED <<phase, layout, secrets, activeBackends, widgetDataSnapshot, live, inFlight,
                   sseVars, bootVars>>

\* POST /api/layout, saveConfig failing (it catches the write error and
\* returns false, storage.js:52-61): 500, no reconciliation
SaveLayoutFails ==
    /\ phase = "serving"
    /\ calls' = NoCalls
    /\ lastRequest' = Request("POST /layout", 500) @@ [persist |-> "returned false"]
    /\ UNCHANGED <<phase, layout, secrets, activeBackends, widgetDataSnapshot, live, inFlight,
                   sseVars, bootVars>>

\* SecretsManager.setWidgetSecrets: the store after the assignment
StoreSet(store, widgetId, bucket) ==
    [t \in DOMAIN store \cup {widgetId} |-> IF t = widgetId THEN bucket ELSE store[t]]

\* SecretsManager.deleteWidgetSecrets: the store after the delete
StoreDelete(store, widgetId) == [t \in DOMAIN store \ {widgetId} |-> store[t]]

\* POST /api/admin/widgets/:widgetId/secrets (index.js:132-159), save() succeeding
SetSecrets(widgetId, bucket, resultSet) ==
    /\ phase = "serving"
    /\ secrets' = StoreSet(secrets, widgetId, bucket)
    /\ SyncWidgetBackends(layout, secrets', resultSet)
    /\ secretsFile' = FileHolding(secrets', IsDevelopment(processEnv))
    /\ lastRequest' = Request("POST /secrets", 200) @@ [widgetId |-> widgetId]
    /\ UNCHANGED <<phase, layout, sseVars, processEnv>>

\* DELETE /api/admin/widgets/:widgetId/secrets (index.js:162-183), save() succeeding
DeleteSecrets(widgetId, resultSet) ==
    /\ phase = "serving"
    /\ secrets' = StoreDelete(secrets, widgetId)
    /\ SyncWidgetBackends(layout, secrets', resultSet)
    /\ secretsFile' = IF widgetId \in DOMAIN secrets
                          THEN FileHolding(secrets', IsDevelopment(processEnv))
                          ELSE secretsFile
    /\ lastRequest' = Request("DELETE /secrets", 200) @@ [widgetId |-> widgetId]
    /\ UNCHANGED <<phase, layout, sseVars, processEnv>>

\* POST /api/admin/widgets/:widgetId/secrets when save() throws: the store was
\* assigned before the write (crypto.js:260-263), the handler answers
\* 500 and does not reconcile
SetSecretsSaveFails(widgetId, bucket) ==
    /\ phase = "serving"
    /\ secrets' = StoreSet(secrets, widgetId, bucket)
    /\ calls' = NoCalls
    /\ lastRequest' = Request("POST /secrets", 500) @@
            [widgetId |-> widgetId, persist |-> "threw"]
    /\ UNCHANGED <<phase, layout, activeBackends, widgetDataSnapshot, live, inFlight,
                   sseVars, bootVars>>

\* DELETE /api/admin/widgets/:widgetId/secrets when save() throws: only a stored
\* bucket is deleted and saved
DeleteSecretsSaveFails(widgetId) ==
    /\ phase = "serving"
    /\ widgetId \in DOMAIN secrets
    /\ secrets' = StoreDelete(secrets, widgetId)
    /\ calls' = NoCalls
    /\ lastRequest' = Request("DELETE /secrets", 500) @@
            [widgetId |-> widgetId, persist |-> "threw"]
    /\ UNCHANGED <<phase, layout, activeBackends, widgetDataSnapshot, live, inFlight,
                   sseVars, bootVars>>

(***************************************************************************)
(* SecretsManager.getMaskedSecrets (crypto.js:298-316), the masked read   *)
(***************************************************************************)
\* a secret value: a string is the sequence of its characters
Str(chars) == [str |-> chars]
Num(n) == [num |-> n]
IsString(v) == "str" \in DOMAIN v

Stars == <<"*", "*", "*">>

\* mutant of MaskValue: long strings are shown as they are
MaskValueLongUnmasked(v) ==
    IF IsString(v) /\ Len(v.str) > 0 /\ Len(v.str) <= 8 THEN Str(Stars) ELSE v

\* one value of the masked view
MaskValue(v) ==
    IF IsString(v) /\ Len(v.str) > 8
        THEN Str(SubSeq(v.str, 1, 3) \o Stars \o SubSeq(v.str, Len(v.str) - 2, Len(v.str)))
    ELSE IF IsString(v) /\ Len(v.str) > 0
        THEN Str(Stars)
    ELSE v

\* mutant of GetMaskedSecrets: only the string members are returned
GetMaskedSecretsStringsOnly(store, widgetId) ==
    LET bucket == GetWidgetSecrets(store, widgetId)
    IN  [key \in {k \in DOMAIN bucket : IsString(bucket[k])} |-> MaskValue(bucket[key])]

GetMaskedSecrets(store, widgetId) ==
    LET bucket == GetWidgetSecrets(store, widgetId)
    IN  [key \in DOMAIN bucket |-> MaskValue(bucket[key])]

\* SecretsManager.hasSecrets
HasSecrets(store, widgetId) == DOMAIN GetWidgetSecrets(store, widgetId) # {}

\* this.secrets[widgetId] throws a TypeError when load() left null in
\* this.secrets
StoreAccessThrows(store) == store = JsNull

\* GET /api/admin/widgets/:widgetId/secrets (index.js:112-129); 500 when
\* the store access throws
GetMaskedSecretsRequest(widgetId) ==
    /\ phase = "serving"
    /\ lastRequest' =
            IF StoreAccessThrows(secrets)
            THEN Request("GET /secrets", 500) @@ [widgetId |-> widgetId]
            ELSE Request("GET /secrets", 200) @@
                    [widgetId   |-> widgetId,
                     secrets    |-> GetMaskedSecrets(secrets, widgetId),
                     hasSecrets |-> HasSecrets(secrets, widgetId)]
    /\ calls' = NoCalls
    /\ UNCHANGED <<phase, layout, secrets, activeBackends, widgetDataSnapshot, live, inFlight,
                   sseVars, bootVars>>

(***************************************************************************)
(* Request bodies of the admin API as body-parser hands them over          *)
(***************************************************************************)
\* JSON values that are not plain objects; a plain object is the function
\* from its keys to its values
JsString(chars) == [js |-> "string", str |-> chars]
JsArray(items) == [js |-> "array", items |-> items]

IsPlainObject(v) == "js" \notin DOMAIN v

\* typeof v === 'object'
TypeOfIsObject(v) == IsPlainObject(v) \/ v.js \in {"null", "array"}

\* !v is false
Truthy(v) == IsPlainObject(v) \/ v.js = "array" \/ (v.js = "string" /\ v.str # "")

\* the property names of an array: its indices
IndexKey(k) == <<"0", "1">>[k]

\* { ...v } of an object or an array
Spread(v) ==
    IF IsPlainObject(v) THEN v
    ELSE [key \in {IndexKey(k) : k \in DOMAIN v.items} |->
            v.items[CHOOSE k \in DOMAIN v.items : IndexKey(k) = key]]

\* the guard of the handler (index.js:141) and of setWidgetSecrets
\* (crypto.js:255)
BucketRejected(body) == ~Truthy(body) \/ ~TypeOfIsObject(body)

\* POST /api/admin/widgets/:widgetId/secrets (index.js:132-159) with any
\* body, save() succeeding: 400 for a body the guard rejects, 500 when
\* setWidgetSecrets throws (an empty widget id, or the assignment to a
\* store that is null), else the bucket is stored, saved and the backends
\* are reconciled
PostSecrets(widgetId, body, resultSet) ==
    /\ phase = "serving"
    /\ IF BucketRejected(body) \/ widgetId = "" \/ StoreAccessThrows(secrets)
        THEN /\ lastRequest' =
                    Request("POST /secrets", IF BucketRejected(body) THEN 400 ELSE 500)
                    @@ [widgetId |-> widgetId, body |-> body]
             /\ calls' = NoCalls
             /\ UNCHANGED <<secrets, secretsFile, activeBackends, widgetDataSnapshot, live, inFlight>>
        ELSE /\ secrets' = StoreSet(secrets, widgetId, Spread(body))
             /\ secretsFile' = FileHolding(secrets', IsDevelopment(processEnv))
             /\ SyncWidgetBackends(layout, secrets', resultSet)
             /\ lastRequest' = Request("POST /secrets", 200)
                    @@ [widgetId |-> widgetId, body |-> body]
    /\ UNCHANGED <<phase, layout, sseVars, processEnv>>

\* SecretsManager.listWidgetsWithSecrets (crypto.js:288-290): Object.keys
ListWidgetsWithSecrets(store) == DOMAIN store

\* GET /api/admin/secrets (index.js:186-198)
ListSecretsRequest ==
    /\ phase = "serving"
    /\ lastRequest' = Request("GET /admin/secrets", 200) @@
            [widgets |-> ListWidgetsWithSecrets(secrets)]
    /\ calls' = NoCalls
    /\ UNCHANGED <<phase, layout, secrets, activeBackends, widgetDataSnapshot, live, inFlight,
                   sseVars, bootVars>>

\* the key under which a Map holds an item that has no `i`
Undefined == "undefined"

\* a body of POST /api/layout that is a JSON object, not an array
ObjectLayout == [js |-> "object"]

IsArray(body) == body # ObjectLayout

\* an array whose items all carry an instance id
WellFormedLayout(body) == IsArray(body) /\ Undefined \notin DOMAIN body

\* arrays of items, at most one of them without `i`
LayoutBodiesOf(items) ==
    UNION {[S -> items] : S \in SUBSET (Instances \cup {Undefined})}

\* POST /api/layout (index.js:78-96) with any body, saveConfig succeeding:
\* the body is persisted as it is; syncWidgetBackends then throws at
\* currentLayout.forEach (index.js:312) when the body is no array, which
\* Express answers with 500
PostLayout(body, resultSet) ==
    /\ phase = "serving"
    /\ layout' = body
    /\ IF IsArray(body)
        THEN /\ SyncWidgetBackends(body, secrets, resultSet)
             /\ lastRequest' = Request("POST /layout", 200) @@ [body |-> body]
        ELSE /\ lastRequest' = Request("POST /layout", 500) @@ [body |-> body]
             /\ calls' = NoCalls
             /\ UNCHANGED <<activeBackends, widgetDataSnapshot, live, inFlight>>
    /\ UNCHANGED <<phase, secrets, sseVars, bootVars>>

(***************************************************************************)
(* Spec: reconciliation over layouts with every kind of config edit        *)
(***************************************************************************)
LifecycleItems == ItemsOf({"weather-widget", "quote-widget"}, Configs)
LifecycleLayouts == LayoutsOf(LifecycleItems)
LifecycleStores == StoresOf({"weather-widget"}, {Bucket1})
LifecycleResults == {"function", "nothing", "throw"}

Init == InitOver(LifecycleLayouts, LifecycleStores)

Next ==
    \/ InitialSync(LifecycleResults)
    \/ \E newLayout \in EditsOf(layout, LifecycleItems) :
            SaveLayout(newLayout, LifecycleResults)
    \/ SaveLayoutFails
    \/ SetSecrets("weather-widget", Bucket1, LifecycleResults)
    \/ DeleteSecrets("weather-widget", LifecycleResults)

Spec == Init /\ [][Next]_vars

(***************************************************************************)
(* SpecSecrets: two registered types, secrets written and deleted          *)
(***************************************************************************)
SecretsTypes == {"stock-quote-widget", "weather-widget"}
SecretsItems == ItemsOf(SecretsTypes, {CfgAB})
SecretsStores == StoresOf(SecretsTypes, {Bucket1, Bucket2})
SecretsResults == {"function", "throw"}

InitSecrets == InitOver(LayoutsOf(SecretsItems), SecretsStores)

NextSecrets ==
    \/ InitialSync(SecretsResults)
    \/ \E newLayout \in EditsOf(layout, SecretsItems) :
            SaveLayout(newLayout, SecretsResults)
    \/ \E t \in SecretsTypes, b \in {Bucket1, Bucket2} : SetSecrets(t, b, SecretsResults)
    \/ \E t \in SecretsTypes, b \in {Bucket1, Bucket2} : SetSecretsSaveFails(t, b)
    \/ \E t \in SecretsTypes : DeleteSecrets(t, SecretsResults)
    \/ \E t \in SecretsTypes : DeleteSecretsSaveFails(t)

SpecSecrets == InitSecrets /\ [][NextSecrets]_vars

(***************************************************************************)
(* SpecSnapshot: backends publish, snapshots are recorded and cleared      *)
(***************************************************************************)
SnapshotItems == ItemsOf({"stock-quote-widget", "quote-widget"}, {CfgAB})
SnapshotResults == {"object", "throw"}

InitSnapshot == InitOver(LayoutsOf(SnapshotItems), {EmptyMap})

NextSnapshot ==
    \/ InitialSync(SnapshotResults)
    \/ \E newLayout \in EditsOf(layout, SnapshotItems) :
            SaveLayout(newLayout, SnapshotResults)
    \/ \E publisher \in Instances, isError \in BOOLEAN : Broadcast(publisher, isError)

SpecSnapshot == InitSnapshot /\ [][NextSnapshot]_vars

(***************************************************************************)
(* SpecMask: the masked read of one stored string secret                   *)
(***************************************************************************)
MaxSecretLen == 9

RECURSIVE StringsUpTo(_)
StringsUpTo(n) ==
    IF n = 0 THEN {<<>>}
    ELSE LET shorter == StringsUpTo(n - 1)
         IN  shorter \cup {Append(s, c) : s \in {t \in shorter : Len(t) = n - 1},
                                          c \in {"a", "*"}}

SecretValues == {Str(s) : s \in StringsUpTo(MaxSecretLen)} \cup {Num(42)}

\* buckets with one string or number member, alone or next to a number member
MaskBuckets ==
    {[apiKey |-> v] : v \in SecretValues}
    \cup {[apiKey |-> v, port |-> Num(42)] : v \in SecretValues}

InitMask ==
    /\ phase = "serving"
    /\ layout = EmptyMap
    /\ secrets \in {[t \in {"weather-widget"} |-> b] : b \in MaskBuckets}
    /\ activeBackends = EmptyMap
    /\ widgetDataSnapshot = EmptyMap
    /\ calls = NoCalls
    /\ live = [i \in Instances |-> 0]
    /\ inFlight = {}
    /\ lastRequest = Request("discoverWidgets", 0)
    /\ processEnv = ProductionEnv
    /\ secretsFile = FileHolding(secrets, IsDevelopment(processEnv))
    /\ clients = NoClients
    /\ connections = NoConnections
    /\ now = 1

NextMask == \E t \in {"weather-widget", "quote-widget"} : GetMaskedSecretsRequest(t)

SpecMask == InitMask /\ [][NextMask]_vars

(***************************************************************************)
(* SpecAdmin: secrets written with any body, listed and deleted, and       *)
(* writes to disk that fail                                                *)
(***************************************************************************)
AdminItems == ItemsOf({"weather-widget"}, {})
AdminResults == {"function", "throw"}

\* what a client may send as the bucket
AdminBodies ==
    {JsNull, JsString(<<"k">>), JsArray(<<"key-1">>), EmptyBucket, Bucket1}

\* the route never matches an empty widget id; the store is also given one
AdminWidgetIds == {"weather-widget", ""}

InitAdmin == InitOver(LayoutsOf(AdminItems), StoresOf({"weather-widget"}, {Bucket1}))

NextAdmin ==
    \/ InitialSync(AdminResults)
    \/ \E newLayout \in EditsOf(layout, AdminItems) : SaveLayout(newLayout, AdminResults)
    \/ SaveLayoutFails
    \/ \E t \in AdminWidgetIds, body \in AdminBodies : PostSecrets(t, body, AdminResults)
    \/ SetSecretsSaveFails("weather-widget", Bucket2)
    \/ DeleteSecrets("weather-widget", AdminResults)
    \/ DeleteSecretsSaveFails("weather-widget")
    \/ ListSecretsRequest

SpecAdmin == InitAdmin /\ [][NextAdmin]_vars

(***************************************************************************)
(* SpecStream: viewers connect to and leave the event stream               *)
(***************************************************************************)
StreamItems == ItemsOf({"weather-widget"}, {})
StreamResults == {"function", "object", "nothing"}

InitStream == InitOver(LayoutsOf(StreamItems), {EmptyMap})

NextStream ==
    \/ InitialSync(StreamResults)
    \/ \E v \in Viewers : Connect(v)
    \/ \E v \in Viewers : Disconnect(v)
    \/ Tick
    \/ \E publisher \in Instances : Broadcast(publisher, FALSE)

SpecStream == InitStream /\ [][NextStream]_vars

(***************************************************************************)
(* SpecSummary: the ai-summary over handles of every shape                 *)
(***************************************************************************)
SummaryItems == ItemsOf({"weather-widget"}, {})
SummaryResults == {"function", "object"}

InitSummary == InitOver(LayoutsOf(SummaryItems), {EmptyMap})

NextSummary ==
    \/ InitialSync(SummaryResults)
    \/ \E newLayout \in EditsOf(layout, SummaryItems) :
            SaveLayout(newLayout, SummaryResults)
    \/ \E publisher \in Instances, isError \in BOOLEAN : Broadcast(publisher, isError)
    \/ AiSummaryRequest

SpecSummary == InitSummary /\ [][NextSummary]_vars

(***************************************************************************)
(* SpecBoot: the process starts with any environment and any artifact      *)
(***************************************************************************)
\* the ways reading the artifact throws: JSON.parse on a plain file, the
\* decryption or JSON.parse on an encrypted one
CorruptKinds(isDevelopment) ==
    IF isDevelopment THEN {"truncated", "unparseable"}
    ELSE {"truncated", "unauthentic", "unparseable"}

BootBucket == [apiKey |-> Str(<<"k", "e", "y">>)]

\* what the artifact may hold when the process starts
BootFiles(isDevelopment) ==
    {FileMissing}
    \cup {FileCorrupt(how) : how \in CorruptKinds(isDevelopment)}
    \cup {FileHolding(v, isDevelopment) :
            v \in {EmptyMap, [t \in {"weather-widget"} |-> BootBucket], JsNull}}

BootResults == {"function"}

\* the process before index.js:16 ran; dashboard.yml holds an empty layout
InitBoot ==
    /\ phase = "starting"
    /\ processEnv \in [NODE_ENV : NodeEnvs, SECRETS_MASTER_KEY : MasterKeys]
    /\ secretsFile \in BootFiles(IsDevelopment(processEnv))
    /\ layout = EmptyMap
    /\ secrets = EmptyMap
    /\ activeBackends = EmptyMap
    /\ widgetDataSnapshot = EmptyMap
    /\ calls = NoCalls
    /\ live = [i \in Instances |-> 0]
    /\ inFlight = {}
    /\ lastRequest = Request("none", 0)
    /\ clients = NoClients
    /\ connections = NoConnections
    /\ now = 1

\* new SecretsManager(masterKey, isDevelopment) at index.js:16-32 with the
\* constructor (crypto.js:148-162): outside development an invalid master
\* key ends the process, otherwise the artifact is loaded
ConstructSecretsManager ==
    /\ phase = "starting"
    /\ IF ~IsDevelopment(processEnv) /\ ~IsValidMasterKey(processEnv.SECRETS_MASTER_KEY)
        THEN phase' = "exited" /\ UNCHANGED secrets
        ELSE phase' = "discovering" /\ secrets' = Load(secretsFile)
    /\ lastRequest' = Request("new SecretsManager", 0)
    /\ UNCHANGED <<layout, activeBackends, widgetDataSnapshot, calls, live, inFlight,
                   sseVars, bootVars>>

NextBoot ==
    \/ ConstructSecretsManager
    \/ InitialSync(BootResults)
    \/ \E t \in {"weather-widget", "quote-widget"} : GetMaskedSecretsRequest(t)
    \/ \E body \in {JsNull, BootBucket} : PostSecrets("weather-widget", body, BootResults)

SpecBoot == InitBoot /\ [][NextBoot]_vars

(***************************************************************************)
(* SpecLayoutBody: layouts posted with well-formed and malformed bodies    *)
(***************************************************************************)
LayoutBodyItems == ItemsOf({"weather-widget", "quote-widget"}, {})
LayoutBodyResults == {"function", "throw"}

InitLayoutBody == InitOver(LayoutsOf(LayoutBodyItems), {EmptyMap})

NextLayoutBody ==
    \/ InitialSync(LayoutBodyResults)
    \/ \E body \in LayoutBodiesOf(LayoutBodyItems) \cup {ObjectLayout} :
            PostLayout(body, LayoutBodyResults)
    \/ SaveLayoutFails

SpecLayoutBody == InitLayoutBody /\ [][NextLayoutBody]_vars

(***************************************************************************)
(* SpecPublish: from an empty dashboard, backends of every kind fetch and  *)
(* publish while the layout is edited                                      *)
(***************************************************************************)
PublishItems == ItemsOf({"heartbeat-widget", "stock-quote-widget", "quote-widget"}, {})
PublishResults == {"object"}

InitPublish == InitOver({EmptyMap}, {EmptyMap})

NextPublish ==
    \/ InitialSync(PublishResults)
    \/ \E newLayout \in EditsOf(layout, PublishItems) :
            SaveLayout(newLayout, PublishResults)
    \/ \E instanceId \in Instances : StartFetch(instanceId)
    \/ \E closure \in inFlight, isError \in BOOLEAN :
            \E topic \in Topics(closure.widgetId) : CompleteFetch(closure, topic, isError)
    \/ \E instanceId \in Instances : Heartbeat(instanceId)
    \/ GetSnapshot

SpecPublish == InitPublish /\ [][NextPublish]_vars

(***************************************************************************)
(* Properties of the reconciliation                                        *)
(***************************************************************************)
\* the last step ran syncWidgetBackends to its end
Reconciled(req) ==
    \/ req.op = "discoverWidgets"
    \/ req.op \in {"POST /layout", "POST /secrets", "DELETE /secrets"} /\ req.status = 200

IsCleanupThenInit(cs) == Len(cs) = 2 /\ cs[1].op = "cleanup" /\ cs[2].op = "init"

Desired(lay, i) == i \in DOMAIN lay /\ lay[i].widgetId \in backendRegistry

\* C1: at no point do two live backends exist for one instanceId: per
\* instance, successful initializer calls minus cleanup calls never exceeds
\* one, and the handle table (a map keyed by instanceId) holds the one live
\* backend exactly when that difference is one.
C1_AtMostOneBackend ==
    \A i \in Instances :
        /\ live[i] <= 1
        /\ Cardinality({j \in DOMAIN activeBackends : j = i}) <= 1
        /\ (i \in DOMAIN activeBackends) => live[i] = 1

\* an instance that was restarted and now runs exactly one backend
C1_Witness ==
    \E i \in Instances :
        /\ IsCleanupThenInit(calls[i]) /\ calls[i][2].ok
        /\ i \in DOMAIN activeBackends /\ live[i] = 1

\* instance i is active and a reconciling step changes nothing but its config
ConfigOnlyEdit(i) ==
    /\ Reconciled(lastRequest')
    /\ i \in DOMAIN activeBackends
    /\ i \in DOMAIN layout /\ i \in DOMAIN layout'
    /\ layout'[i].widgetId = layout[i].widgetId
    /\ ~DeepEqual(ConfigOrEmpty(layout[i]), ConfigOrEmpty(layout'[i]))
    /\ \A j \in Instances \ {i} :
        /\ (j \in DOMAIN layout) = (j \in DOMAIN layout')
        /\ j \in DOMAIN layout => layout'[j] = layout[j]

\* the restart of i: one cleanup, then one initializer call, and the old
\* handle is gone when the initializer runs (nothing is left if it throws)
RestartOf(i) ==
    /\ IsCleanupThenInit(calls'[i])
    /\ ~calls'[i][2].ok => i \notin DOMAIN activeBackends'

\* C3 as stated: changing only the config of an active instance restarts it
\* (one cleanup, then one initializer call) and makes no call for any other
\* instance.
C3_AsStated ==
    [][\A i \in Instances : ConfigOnlyEdit(i) =>
            /\ RestartOf(i)
            /\ \A j \in Instances \ {i} : calls'[j] = <<>>]_vars

\* C3 amended: changing only the config of an active instance restarts it
\* (one cleanup, then one initializer call) and makes no call for any other
\* instance that has a handle.
C3_ConfigDiffRestart ==
    [][\A i \in Instances : ConfigOnlyEdit(i) =>
            /\ RestartOf(i)
            /\ \A j \in (DOMAIN activeBackends) \ {i} : calls'[j] = <<>>]_vars

\* one instance was restarted while the other kept its handle untouched
C3_Witness ==
    \E i \in Instances : \E j \in Instances \ {i} :
        /\ lastRequest = Request("POST /layout", 200)
        /\ IsCleanupThenInit(calls[i])
        /\ j \in DOMAIN activeBackends /\ calls[j] = <<>>

\* a reconciliation of a layout that was already reconciled
SecondPass == phase = "serving" /\ Reconciled(lastRequest') /\ layout' = layout

\* C4 as stated: a second reconciliation of an unchanged layout makes no
\* initializer call and no cleanup call, whatever the initializers did in
\* the first pass.
C4_AsStated == [][SecondPass => calls' = NoCalls]_vars

\* C4 amended: a second reconciliation of an unchanged layout makes no
\* cleanup call, and its only initializer calls are the retries for desired
\* instances left without a handle by a throwing initializer.
C4_NoOpStability ==
    [][SecondPass =>
        \A i \in Instances :
            /\ NumCleanups(calls'[i]) = 0
            /\ NumInits(calls'[i]) <= 1
            /\ calls'[i] # <<>> => i \notin DOMAIN activeBackends /\ Desired(layout, i)
            /\ i \in DOMAIN activeBackends =>
                    i \in DOMAIN activeBackends' /\ activeBackends'[i] = activeBackends[i]]_vars

\* a pass over an unchanged layout (a secrets write) that made no call while
\* both instances run
C4_Witness ==
    /\ lastRequest.op = "POST /secrets" /\ lastRequest.status = 200
    /\ calls = NoCalls
    /\ DOMAIN activeBackends = Instances

\* C6 as stated: a handle whose stored config is deeply equal to the layout
\* config (same members, in any order) is left untouched by a reconciliation.
C6_AsStated ==
    [][Reconciled(lastRequest') =>
        \A i \in DOMAIN activeBackends :
            (/\ Desired(layout', i)
             /\ DeepEqual(ConfigOrEmpty(activeBackends[i]), ConfigOrEmpty(layout'[i])))
            => /\ calls'[i] = <<>>
               /\ i \in DOMAIN activeBackends' /\ activeBackends'[i] = activeBackends[i]]_vars

\* C7: every handle's stored config equals the config of its layout item,
\* an absent config counting as {}.
C7_HandleConfigMatchesLayout ==
    \A i \in DOMAIN activeBackends :
        /\ i \in DOMAIN layout
        /\ ConfigOrEmpty(activeBackends[i]) = ConfigOrEmpty(layout[i])

\* a handle started without a config whose item now carries {}, and a handle
\* restarted with a non-empty config
C7_Witness ==
    \E i \in DOMAIN activeBackends : \E j \in DOMAIN activeBackends :
        /\ "config" \notin DOMAIN activeBackends[i] /\ "config" \in DOMAIN layout[i]
        /\ IsCleanupThenInit(calls[j]) /\ ConfigOrEmpty(activeBackends[j]) = CfgAB

\* C8: an item whose widgetId has no initializer in the registry has no
\* handle and got no initializer call, and no initializer is ever called for
\* an unregistered type.
C8_UnregisteredNeverStarted ==
    /\ \A i \in DOMAIN layout :
            layout[i].widgetId \notin backendRegistry =>
                i \notin DOMAIN activeBackends /\ NumInits(calls[i]) = 0
    /\ \A i \in Instances : \A k \in DOMAIN calls[i] :
            calls[i][k].op = "init" => calls[i][k].context.widgetId \in backendRegistry

\* a layout save that placed an unregistered item next to a running backend
C8_Witness ==
    \E i \in DOMAIN layout : \E j \in DOMAIN activeBackends :
        /\ lastRequest = Request("POST /layout", 200)
        /\ layout[i].widgetId = "quote-widget"
        /\ calls[j] # <<>>

(***************************************************************************)
(* Properties of the secret store and of the snapshots                     *)
(***************************************************************************)
\* C2 as stated: a successful POST of secrets for a type restarts every
\* running instance of that type once (cleanup, then an initializer call
\* that receives the new bucket) and makes no call for instances of other
\* types.
C2_AsStated ==
    [][(lastRequest'.op = "POST /secrets" /\ lastRequest'.status = 200) =>
        \A i \in DOMAIN activeBackends :
            IF activeBackends[i].widgetId = lastRequest'.widgetId
            THEN /\ IsCleanupThenInit(calls'[i])
                 /\ calls'[i][2].context.secrets = secrets'[lastRequest'.widgetId]
            ELSE calls'[i] = <<>>]_vars

\* C5 as stated: an instance that is not in the layout has no handle and no
\* DataSnapshot, and the ai-summary does not list it.
C5_AsStated ==
    \A i \in Instances \ DOMAIN layout :
        /\ i \notin DOMAIN activeBackends
        /\ i \notin DOMAIN widgetDataSnapshot
        /\ i \notin AiSummaryInstances

\* the bucket stored under a widget type, {} if there is none
StoredBucket(widgetId) ==
    IF widgetId \in DOMAIN secrets THEN secrets[widgetId] ELSE EmptyBucket

InitEvents(i) == {calls[i][k] : k \in {n \in DOMAIN calls[i] : calls[i][n].op = "init"}}

\* C9: every initializer call of a pass receives the bucket stored under the
\* widget type of its own layout item ({} if none), so that two instances
\* of one type started in the same pass receive equal buckets whatever the
\* other types' buckets hold.
C9_OwnTypeBucket ==
    /\ \A i \in Instances : \A e \in InitEvents(i) :
            /\ e.context.widgetId = layout[i].widgetId
            /\ e.context.instanceId = i
            /\ e.context.secrets = StoredBucket(layout[i].widgetId)
    /\ \A i \in Instances : \A j \in Instances :
        \A e \in InitEvents(i) : \A f \in InitEvents(j) :
            e.context.widgetId = f.context.widgetId => e.context.secrets = f.context.secrets

\* two instances of one type started in the same pass while the other type
\* holds a different bucket
C9_Witness ==
    /\ "stock-quote-widget" \in DOMAIN secrets /\ "weather-widget" \in DOMAIN secrets
    /\ secrets["stock-quote-widget"] # secrets["weather-widget"]
    /\ \A i \in Instances :
        \E e \in InitEvents(i) :
            e.context.widgetId = "weather-widget" /\ e.context.secrets = Bucket1

\* the masked read answered last, for a stored string longer than 3 characters
MaskedLongString(key) ==
    /\ lastRequest.op = "GET /secrets"
    /\ key \in DOMAIN StoredBucket(lastRequest.widgetId)
    /\ IsString(StoredBucket(lastRequest.widgetId)[key])
    /\ Len(StoredBucket(lastRequest.widgetId)[key].str) > 3

LooksMasked(chars) == Len(chars) = 9 /\ SubSeq(chars, 4, 6) = Stars

C12_AsStated ==
    [][(/\ lastRequest'.op = "POST /secrets"
        /\ "body" \in DOMAIN lastRequest'
        /\ (~IsPlainObject(lastRequest'.body) \/ lastRequest'.widgetId = ""))
       => /\ lastRequest'.status # 200
          /\ secrets' = secrets
          /\ secretsFile' = secretsFile]_vars

\* C13 as stated: list() returns exactly the widget types whose bucket is
\* not empty, the types for which the masked read reports hasSecrets.
C13_AsStated ==
    lastRequest.op = "GET /admin/secrets" =>
        lastRequest.widgets = {t \in WidgetTypes : HasSecrets(secrets, t)}

\* the step taken last tried to write a file and the write failed
PersistFailed == "persist" \in DOMAIN lastRequest

\* C15 as stated: when persisting fails during a secrets set, a secrets
\* delete or a layout save, the store operation raises an error and the
\* request is answered with an error status.
C15_AsStated ==
    PersistFailed => lastRequest.persist = "threw" /\ lastRequest.status >= 400

\* C15 amended: when persisting fails, the request is answered with status
\* 500; setWidgetSecrets and deleteWidgetSecrets raise the write error,
\* while saveConfig does not raise and returns false.
C15_PersistFailureReported ==
    PersistFailed =>
        /\ lastRequest.status = 500
        /\ lastRequest.op \in {"POST /secrets", "DELETE /secrets"}
                => lastRequest.persist = "threw"
        /\ lastRequest.op = "POST /layout" => lastRequest.persist = "returned false"

\* a failed layout save after a failed secrets write (the artifact is still
\* behind the store)
C15_Witness ==
    /\ PersistFailed
    /\ lastRequest.op = "POST /layout"
    /\ secretsFile # FileHolding(secrets, IsDevelopment(processEnv))

\* C17 as stated: a POST /layout whose body is not an array of layout items
\* (a JSON object, or items without an instance id) is answered with a 4xx
\* status and changes neither the persisted layout nor the running backends.
C17_AsStated ==
    [][(/\ lastRequest'.op = "POST /layout"
        /\ "body" \in DOMAIN lastRequest'
        /\ ~WellFormedLayout(lastRequest'.body))
       => /\ lastRequest'.status \in 400..499
          /\ layout' = layout
          /\ activeBackends' = activeBackends]_vars

(***************************************************************************)
(* Properties of the start-up                                              *)
(***************************************************************************)
\* the secrets manager was constructed and the process runs
Running == phase \in {"discovering", "serving"}

\* C14 as stated: the store runs in plain mode only when development mode
\* is explicitly selected; with no mode configured it runs in encrypted
\* mode, so that the server starts only with a valid master key.
C14_AsStated ==
    Running =>
        /\ IsDevelopment(processEnv) => processEnv.NODE_ENV = "development"
        /\ processEnv.NODE_ENV = "unset" =>
                /\ ~IsDevelopment(processEnv)
                /\ IsValidMasterKey(processEnv.SECRETS_MASTER_KEY)
        /\ (secretsFile.state = "intact" /\ secretsFile.format = "plain")
                => processEnv.NODE_ENV = "development"

\* the artifact holds the serialization of a plain object
HoldsBucketMap(file) == file.state = "intact" /\ IsPlainObject(file.value)

\* C16 as stated: whatever the artifact holds, the construction succeeds;
\* when it is missing, unreadable or holds something that is no map of
\* buckets, the store starts as the empty map and a read answers {} for
\* every type without throwing.
C16_AsStated ==
    (Running /\ lastRequest.op \in {"new SecretsManager", "discoverWidgets", "GET /secrets"}
             /\ ~HoldsBucketMap(secretsFile))
    => /\ secrets = EmptyMap
       /\ lastRequest.op = "GET /secrets" =>
                lastRequest.status = 200 /\ lastRequest.secrets = EmptyBucket

(***************************************************************************)
(* Properties of the event stream                                          *)
(***************************************************************************)
\* the number of messages of a log that carry the data of instance i
NumCachedData(log, i) ==
    Cardinality({k \in DOMAIN log : "instanceId" \in DOMAIN log[k] /\ log[k].instanceId = i})

\* C18 as stated: a viewer that connects is at once sent one event with the
\* last data of each active backend instance, and every backend that
\* supports refresh is refreshed, whatever the shape of the handle.
C18_AsStated ==
    lastRequest.op = "GET /events" =>
        \A i \in DOMAIN activeBackends :
            /\ NumCachedData(connections[lastRequest.viewer].received, i) = 1
            /\ activeBackends[i].refresh => calls[i] = <<[op |-> "refresh"]>>

\* C19 as stated: each publish is written to every viewer whose connection
\* is open, at the end of what that viewer received before, so that every
\* viewer receives the events in the order of their publication.
C19_AsStated ==
    [][lastRequest'.op = "broadcast" =>
        \E event \in {BroadcastEvent(t, e, now) : t \in WidgetTypes, e \in BOOLEAN} :
            \A v \in Viewers :
                connections[v].open =>
                    connections'[v].received = Append(connections[v].received, event)]_vars

(***************************************************************************)
(* Properties of the ai-summary                                            *)
(***************************************************************************)
\* C20 as stated: dashboard_state is no_data exactly when there is no widget
\* or every widget is missing data, critical exactly when more than half
\* of the widgets are in error, degraded when some widget is in error but
\* not more than half, and operational exactly when there is a widget, no
\* error and no missing data.
C20_AsStated ==
    lastRequest.op = "GET /ai-summary" =>
        LET widgets == lastRequest.widgets
            state == lastRequest.dashboard_state
            n == Cardinality(DOMAIN widgets)
            errors == CountOf(widgets, "error")
            missing == CountOf(widgets, "no_data")
        IN  /\ (state = "no_data") <=> (n = 0 \/ missing = n)
            /\ (state = "critical") <=> (2 * errors > n)
            /\ (errors > 0 /\ 2 * errors <= n) => state = "degraded"
            /\ (state = "operational") <=> (n >= 1 /\ errors = 0 /\ missing = 0)

(***************************************************************************)
(* Properties of publishing                                                *)
(***************************************************************************)
\* the request was a publish of the backend that runs for instance i
PublishedByRunning(req, i) ==
    /\ req.op = "broadcast"
    /\ "origin" \in DOMAIN req
    /\ req.origin = i
    /\ i \in DOMAIN activeBackends
    /\ activeBackends[i].widgetId = req.widgetId

\* C21 as stated: starting from an empty layout, a POST /layout with one
\* item of a registered type causes exactly one initializer call, and once
\* that backend has published, GET /dashboard/snapshot contains an entry
\* for the new instance.
C21_AsStated ==
    [][/\ (/\ layout = EmptyMap
           /\ lastRequest'.op = "POST /layout"
           /\ lastRequest'.status = 200)
          => \A i \in ActiveInstances(layout') :
                DOMAIN layout' = {i} => NumInits(calls'[i]) = 1
       /\ \A i \in Instances :
            (/\ DOMAIN layout = {i}
             /\ PublishedByRunning(lastRequest, i)
             /\ lastRequest'.op = "GET /dashboard/snapshot")
            => \E entry \in lastRequest'.widgets : entry.instanceId = i]_vars

\* the request was broadcast(topic, payload) of some backend
IsPublish(req) == req.op = "broadcast" /\ "topic" \in DOMAIN req

\* the pairs <<a, b>> of widget ids and topics in which a is a part of b
\* and shorter than b
ProperSubstrings ==
    {<<"quote-widget", "stock-quote-widget">>,
     <<"stock-quote", "stock-quote-widget">>,
     <<"heartbeat", "heartbeat-widget">>}

\* C25: publish(topic, payload) overwrites the snapshot of exactly those
\* layout instances whose widget id equals the topic or is a substring of
\* it, all of them when several match; the new entry has status error if
\* and only if the payload carries an error, and healthy otherwise; the
\* snapshot of every other instance is left as it was.
C25_PublishOverwritesMatching ==
    [][IsPublish(lastRequest') =>
        \A i \in Instances :
            LET topic == lastRequest'.topic
                matches == /\ i \in DOMAIN layout
                           /\ \/ layout[i].widgetId = topic
                              \/ <<layout[i].widgetId, topic>> \in ProperSubstrings
            IN  /\ matches =>
                    /\ i \in DOMAIN widgetDataSnapshot'
                    /\ widgetDataSnapshot'[i].instanceId = i
                    /\ widgetDataSnapshot'[i].widgetId = layout[i].widgetId
                    /\ widgetDataSnapshot'[i].data.instanceId = lastRequest'.origin
                    /\ widgetDataSnapshot'[i].status =
                            IF lastRequest'.error THEN "error" ELSE "healthy"
                /\ ~matches =>
                    /\ (i \in DOMAIN widgetDataSnapshot') <=> (i \in DOMAIN widgetDataSnapshot)
                    /\ i \in DOMAIN widgetDataSnapshot =>
                            widgetDataSnapshot'[i] = widgetDataSnapshot[i]]_vars

\* a payload with an error was published under stock-quote-widget while the
\* layout held an item of that type and a quote-widget item: both snapshots
\* were overwritten with status error
C25_Witness ==
    /\ IsPublish(lastRequest)
    /\ lastRequest.topic = "stock-quote-widget"
    /\ lastRequest.error
    /\ \E i, j \in DOMAIN layout :
        /\ layout[i].widgetId = "stock-quote-widget"
        /\ layout[j].widgetId = "quote-widget"
        /\ i \in DOMAIN widgetDataSnapshot /\ widgetDataSnapshot[i].status = "error"
        /\ j \in DOMAIN widgetDataSnapshot /\ widgetDataSnapshot[j].status = "error"
        /\ widgetDataSnapshot[j].data = widgetDataSnapshot[i].data

\* C28 as stated: the snapshot stored under an instanceId only ever holds
\* a payload published by the backend of that instance: a publish of one
\* instance never overwrites the snapshot of another instance, of the same
\* or of another widget type.
C28_AsStated ==
    \A i \in DOMAIN widgetDataSnapshot :
        "instanceId" \in DOMAIN widgetDataSnapshot[i].data =>
            widgetDataSnapshot[i].data.instanceId = i

\* C29: a reconciliation that stops the backend of an instance that left
\* the layout leaves no snapshot of it, and no publish, the one of its own
\* detached backend whose request was in flight included, stores a
\* snapshot for an instanceId that is not in the layout.
C29_NoSnapshotForRemoved ==
    [][/\ Reconciled(lastRequest') =>
            \A i \in DOMAIN activeBackends \ DOMAIN layout' :
                i \notin DOMAIN widgetDataSnapshot'
       /\ IsPublish(lastRequest') =>
            \A i \in Instances \ DOMAIN layout :
                i \notin DOMAIN widgetDataSnapshot => i \notin DOMAIN widgetDataSnapshot']_vars

\* the backend of an instance that is no longer in the layout and has no
\* handle published under the topic its own widget id matches, while an
\* instance of that type is in the layout, and no snapshot was stored for
\* the removed instance
C29_Witness ==
    /\ IsPublish(lastRequest)
    /\ lastRequest.topic = lastRequest.widgetId
    /\ lastRequest.origin \notin DOMAIN layout
    /\ lastRequest.origin \notin DOMAIN activeBackends
    /\ lastRequest.origin \notin DOMAIN widgetDataSnapshot
    /\ \E j \in DOMAIN layout :
        /\ layout[j].widgetId = lastRequest.widgetId
        /\ j \in DOMAIN widgetDataSnapshot
        /\ widgetDataSnapshot[j].data.instanceId = lastRequest.origin

(***************************************************************************)
(* Properties of failing initializers and cleanups                         *)
(***************************************************************************)
\* one of the calls threw
SomeCallThrew(cs) ==
    \E k \in DOMAIN cs : \/ cs[k].op = "cleanup" /\ cs[k].threw
                         \/ cs[k].op = "init" /\ ~cs[k].ok

\* C22: within one reconciliation pass, an exception thrown by the
\* initializer or the cleanup of one instance does not leave the pass (the
\* request is answered as a success) and every instance gets the calls the
\* algorithm prescribes: a cleanup and no handle for a handle that is no
\* longer desired, one initializer call for a desired instance without
\* handle, a cleanup followed by one initializer call when the config
\* changed, and nothing otherwise.
C22_FailuresIsolated ==
    [][/\ (\E j \in Instances : SomeCallThrew(calls'[j])) => Reconciled(lastRequest')
       /\ Reconciled(lastRequest') =>
            \A i \in Instances :
                LET desired == Desired(layout', i)
                    had == i \in DOMAIN activeBackends
                    changed == had /\ desired /\
                               ConfigChanged(activeBackends[i], layout'[i])
                IN  /\ (had /\ ~desired) =>
                            /\ NumCleanups(calls'[i]) = 1 /\ NumInits(calls'[i]) = 0
                            /\ i \notin DOMAIN activeBackends'
                    /\ (desired /\ ~had) =>
                            NumCleanups(calls'[i]) = 0 /\ NumInits(calls'[i]) = 1
                    /\ changed =>
                            /\ Len(calls'[i]) = 2
                            /\ calls'[i][1].op = "cleanup" /\ calls'[i][2].op = "init"
                    /\ (had /\ desired /\ ~changed) =>
                            calls'[i] = <<>> /\ activeBackends'[i] = activeBackends[i]
                    /\ (~had /\ ~desired) => calls'[i] = <<>>
                    /\ (i \in DOMAIN activeBackends') <=>
                            \/ had /\ desired /\ ~changed
                            \/ NumStarts(calls'[i]) = 1]_vars

\* a pass in which the initializer of one instance threw while another
\* instance was restarted: its cleanup threw and its initializer succeeded
C22_Witness ==
    /\ Reconciled(lastRequest)
    /\ \E i, j \in Instances :
        /\ i # j
        /\ Len(calls[i]) = 1 /\ calls[i][1].op = "init" /\ ~calls[i][1].ok
        /\ i \notin DOMAIN activeBackends
        /\ Len(calls[j]) = 2
        /\ calls[j][1].op = "cleanup" /\ calls[j][1].threw
        /\ calls[j][2].op = "init" /\ calls[j][2].ok
        /\ j \in DOMAIN activeBackends

\* C23 as stated: whenever the manager stops a handle, because the instance
\* left the layout or as the first half of a config-change restart, both
\* the old handle and the snapshot of the instance are removed, whether or
\* not the cleanup throws.
C23_AsStated ==
    [][Reconciled(lastRequest') =>
        \A i \in DOMAIN activeBackends :
            NumCleanups(calls'[i]) = 1 =>
                /\ i \notin DOMAIN widgetDataSnapshot'
                /\ i \in DOMAIN activeBackends' => NumStarts(calls'[i]) = 1]_vars

\* the initializer call among the calls threw
InitThrew(cs) == \E k \in DOMAIN cs : cs[k].op = "init" /\ ~cs[k].ok

\* C24: when the initializer of an instance throws, on a first start or in
\* a restart, no handle is kept for the instance; and every pass that finds
\* a desired instance without a handle calls its initializer exactly once,
\* so a failed start is tried again in each later pass until one succeeds.
C24_RetriedUntilStarted ==
    [][Reconciled(lastRequest') =>
        \A i \in Instances :
            /\ InitThrew(calls'[i]) => i \notin DOMAIN activeBackends'
            /\ (Desired(layout', i) /\ i \notin DOMAIN activeBackends) =>
                    /\ NumInits(calls'[i]) = 1
                    /\ (i \in DOMAIN activeBackends') <=> ~InitThrew(calls'[i])]_vars

\* a layout save, which edits one item, whose pass called the initializers
\* of both instances and stopped nothing: one of the two calls is the
\* retry of a start that had failed; it fails again for i and i has no
\* handle, the other succeeds
C24_Witness ==
    /\ lastRequest.op = "POST /layout"
    /\ lastRequest.status = 200
    /\ \E i, j \in Instances :
        /\ i # j
        /\ Len(calls[i]) = 1 /\ InitThrew(calls[i])
        /\ Desired(layout, i) /\ i \notin DOMAIN activeBackends
        /\ Len(calls[j]) = 1 /\ NumStarts(calls[j]) = 1
        /\ j \in DOMAIN activeBackends

\* C30 as stated: after every completed reconciliation, each active handle
\* was created by the initializer registered for the widget id that its
\* instance has in the layout: when a layout save changes the widget id of
\* an existing instanceId, the old backend is stopped and the backend of
\* the new type is started.
C30_AsStated ==
    phase = "serving" =>
        \A i \in DOMAIN activeBackends :
            i \in DOMAIN layout /\ activeBackends[i].widgetId = layout[i].widgetId

(***************************************************************************)
(* Properties of the secret store and the event stream under failures      *)
(***************************************************************************)
\* C27 as stated: when persisting fails during a set or a delete, the
\* in-memory store is left exactly as it was before the call, so that it
\* never differs from what was persisted last.
C27_AsStated ==
    [][(PersistFailed' /\ lastRequest'.persist = "threw") =>
            /\ secrets' = secrets
            /\ secrets' = Load(secretsFile')]_vars

\* C26 as stated: the disconnect of a viewer removes only the registration
\* of that viewer: every other viewer that is connected stays registered
\* and receives the events published later, also when two viewers
\* connected at the same clock value.
C26_AsStated ==
    [][lastRequest'.op = "close" =>
        \A w \in Viewers \ {lastRequest'.viewer} :
            (connections[w].open /\ w \in Registered(clients)) =>
                w \in Registered(clients')]_vars

====
